---- MODULE Spec2Model ----
(***************************************************************************)
(* State-machine model of the voice recorder: the Electron main process    *)
(* (main.js: global shortcut, retry slot, temp files, transcribe / retry / *)
(* cancel IPC handlers) and the renderer (renderer.js: the idle /          *)
(* recording / processing / error UI state machine), connected by two      *)
(* FIFO IPC channels.  Asynchronous steps (timers, file deletion, device   *)
(* acquisition, ffmpeg, the transcription call, paste) resolve in their    *)
(* own actions, so every interleaving the event loops allow is explored.   *)
(***************************************************************************)
EXTENDS Integers, Sequences, FiniteSets, TLC

\* ---------------------------------------------------------------- bounds
MaxFiles == 2      \* distinct timestamps (Date.now()) available for temp file names
MaxQueue == 1      \* capacity of each IPC channel
MaxTimers == 1     \* pending 50 ms start timers
MaxAcquire == 2    \* startRecording() invocations awaiting getUserMedia at once
MaxInFlight == 2   \* handler invocations in flight in the main process at once
MaxOrphanStops == 1 \* queued 'stop' events of recorders no longer referenced

FileIds == 1..MaxFiles
NoPath == 0

VARIABLES
    \* ---- main process (main.js)
    lastFailedMp3Path,     \* NoPath, or the id of the .mp3 kept for retry
    winVisible,            \* mainWindow.isVisible()
    isProcessingShortcut,  \* the hotkey lock
    lockTimer,             \* pending setTimeout(release, 0): "none", or the decision
                           \* ("cancel", "stop", "start") of the press that scheduled it
    startTimers,           \* number of pending setTimeout(send trigger-start, 50)
    ops,                   \* in-flight 'transcribe-audio' / 'retry-transcription' invocations
    files,                 \* temp files on disk: <<id, "webm"|"mp3">>
    unlinking,             \* files whose fs.promises.unlink has been requested, not completed
    quit,                  \* the process has exited (after 'will-quit')
    \* ---- IPC
    toMain,                \* renderer -> main, FIFO
    toRend,                \* main -> renderer, FIFO
    \* ---- renderer (renderer.js)
    rend,                  \* record of the AudioRecorder closure variables
    perform,               \* one execution's transcription text and the clipboard
    mainWindow             \* "window", "created" (new, 'ready-to-show' awaited), "null"

vars == <<lastFailedMp3Path, winVisible, isProcessingShortcut, lockTimer, startTimers,
          ops, files, unlinking, quit, toMain, toRend, rend, perform, mainWindow>>

mainVars == <<lastFailedMp3Path, winVisible, isProcessingShortcut, lockTimer, startTimers,
              ops, files, unlinking>>

\* ------------------------------------------------------------- messages
\* error distinguishes the reply "No previous failed attempt found to retry."
\* ("no-retry") from the error text of an attempt that ran and failed: the
\* paste-failure text (PasteFailed), a conversion failure (ConversionFailed)
\* or any other ("failed"); a successful
\* result carries "none"; "no-audio" is "No audio data received.".
Msg(t, sv, ok, rt, err) ==
    [type |-> t, save |-> sv, success |-> ok, retryable |-> rt, error |-> err]
TriggerStart == Msg("trigger-start-recording", FALSE, FALSE, FALSE, "none")
TriggerStop(sv) == Msg("trigger-stop-recording", sv, FALSE, FALSE, "none")
StopResult(ok, rt, err) == Msg("transcribe-audio-result", FALSE, ok, rt, err)
RetryResult(ok, rt, err) == Msg("retry-transcription-result", FALSE, ok, rt, err)

\* The 0 ms release timer is the first task the main process runs after the
\* shortcut callback; only a further key press can be dispatched before it.
\* LockTimerFire touches the lock alone, which no step but Hotkey reads, so
\* every other step is taken after it: the order loses no behaviour.
Released == lockTimer = "none"

\* The process is alive before and after the step.
Running == ~quit /\ quit' = quit

\* ------------------------------------------------------------- renderer
currentState == rend.currentState

InitRend ==
    [currentState |-> "idle",
     mediaRecorder |-> "null",          \* "null", "recording", "inactive"
     shouldSaveAndProcess |-> "unset",  \* property set on the current recorder
     stopQueued |-> FALSE,              \* 'stop' event queued for the current recorder
     mediaStream |-> FALSE,             \* a live stream is referenced
     recordedChunks |-> FALSE,          \* recordedChunks.length > 0
     acquiring |-> 0,                   \* startRecording() awaiting getUserMedia
     orphanStops |-> 0,                 \* queued 'stop' events of unreferenced recorders
     orphanSave |-> "unset"]            \* shouldSaveAndProcess of that unreferenced recorder

\* setState(newState)
setState(r, s) == [r EXCEPT !.currentState = s]

\* cleanUpAudio(): stop the referenced stream, detach the referenced
\* recorder's handlers, stop it and drop the reference.
cleanUpAudio(r) ==
    [r EXCEPT !.mediaStream = FALSE,
              !.mediaRecorder = "null",
              !.shouldSaveAndProcess = "unset",
              !.stopQueued = FALSE]

Res(r, out) == [r |-> r, out |-> out]

\* startRecording() up to its await of getUserMedia
startRecording(r) ==
    IF r.currentState # "idle"
    THEN Res(r, <<>>)
    ELSE Res([cleanUpAudio(r) EXCEPT !.recordedChunks = FALSE,
                                     !.acquiring = r.acquiring + 1], <<>>)

\* stopRecording(shouldSaveAndProcess)
stopRecording(r, sv) ==
    IF r.currentState # "recording" \/ r.mediaRecorder # "recording"
    THEN IF r.currentState = "recording"
         THEN Res(setState(cleanUpAudio(r), "idle"),
                  IF sv THEN <<>> ELSE <<"hide-window">>)
         ELSE Res(r, <<>>)
    ELSE LET r1 == [r EXCEPT !.shouldSaveAndProcess = IF sv THEN "true" ELSE "false",
                             !.mediaRecorder = "inactive",
                             !.stopQueued = TRUE]
         IN  Res(IF sv THEN setState(r1, "processing") ELSE r1, <<>>)

handleStopAnyLength(r) ==
    LET sv == r.shouldSaveAndProcess = "true"
        r1 == [r EXCEPT !.shouldSaveAndProcess = "unset"]
    IN  IF sv
        THEN Res([r1 EXCEPT !.recordedChunks = FALSE], <<"transcribe-audio">>)
        ELSE Res(setState([cleanUpAudio(r1) EXCEPT !.recordedChunks = FALSE], "idle"),
                 <<"hide-window">>)

\* handleStop() up to its await of transcribeAudio
handleStop(r) ==
    LET sv == r.shouldSaveAndProcess = "true"
        r1 == [r EXCEPT !.shouldSaveAndProcess = "unset"]
    IN  IF sv /\ r.recordedChunks
        THEN Res([r1 EXCEPT !.recordedChunks = FALSE], <<"transcribe-audio">>)
        ELSE Res(setState([cleanUpAudio(r1) EXCEPT !.recordedChunks = FALSE], "idle"),
                 <<"hide-window">>)

handleStopResultIgnored(r, m) == r

\* handleStop() after transcribeAudio resolved with result m
handleStopResult(r, m) ==
    IF m.success THEN setState(cleanUpAudio(r), "idle")
    ELSE IF m.retryable THEN cleanUpAudio(setState(r, "error"))
    ELSE cleanUpAudio(setState(r, "error"))

handleRetryUnguarded(r) ==
    Res(setState(r, "processing"), <<"retry-transcription">>)

\* handleRetry() up to its await of retryTranscription
handleRetry(r) ==
    IF r.currentState # "error"
    THEN Res(r, <<>>)
    ELSE Res(setState(r, "processing"), <<"retry-transcription">>)

\* handleRetry() after retryTranscription resolved with result m
handleRetryResult(r, m) ==
    IF m.success THEN setState(cleanUpAudio(r), "idle")
    ELSE IF m.retryable THEN setState(r, "error")
    ELSE setState(r, "error")

handleCancelErrorStays(r) == Res(r, <<>>)

\* handleCancelError()
handleCancelError(r) ==
    IF r.currentState # "error"
    THEN Res(r, <<>>)
    ELSE Res(setState(cleanUpAudio(r), "idle"), <<"cancel-retry">>)

\* handleTriggerStart()
handleTriggerStart(r) ==
    IF r.currentState = "idle" THEN startRecording(r)
    ELSE IF r.currentState = "error" THEN handleCancelError(r)
    ELSE Res(r, <<>>)

\* handleTriggerStop(shouldSave)
handleTriggerStop(r, sv) ==
    IF r.currentState = "recording" THEN stopRecording(r, sv)
    ELSE IF r.currentState = "error" THEN handleCancelError(r)
    ELSE Res(r, <<"hide-window">>)

\* Apply a renderer handler's result: new closure state, messages sent to main.
RendDo(res) ==
    /\ Len(toMain) + Len(res.out) <= MaxQueue
    /\ rend' = res.r
    /\ toMain' = toMain \o res.out

\* ---- clicks: a button can be clicked when the window is visible and the
\* ---- state's panel is the displayed one (style.css data-state rules)
ClickMic ==
    /\ UNCHANGED <<perform, mainWindow>>
    /\ Released /\ Running
    /\ winVisible /\ currentState = "idle"
    /\ rend.acquiring < MaxAcquire
    /\ RendDo(startRecording(rend))
    /\ UNCHANGED <<mainVars, toRend>>

ClickCancelRecording ==
    /\ UNCHANGED <<perform, mainWindow>>
    /\ Released /\ Running
    /\ winVisible /\ currentState = "recording"
    /\ RendDo(stopRecording(rend, FALSE))
    /\ UNCHANGED <<mainVars, toRend>>

ClickConfirm ==
    /\ UNCHANGED <<perform, mainWindow>>
    /\ Released /\ Running
    /\ winVisible /\ currentState = "recording"
    /\ RendDo(stopRecording(rend, TRUE))
    /\ UNCHANGED <<mainVars, toRend>>

ClickRetry ==
    /\ UNCHANGED <<perform, mainWindow>>
    /\ Released /\ Running
    /\ winVisible /\ currentState = "error"
    /\ RendDo(handleRetry(rend))
    /\ UNCHANGED <<mainVars, toRend>>

ClickCancelError ==
    /\ UNCHANGED <<perform, mainWindow>>
    /\ Released /\ Running
    /\ winVisible /\ currentState = "error"
    /\ RendDo(handleCancelError(rend))
    /\ UNCHANGED <<mainVars, toRend>>

\* ---- the same handlers invoked while the state's panel is not the displayed
\* ---- one (an input event dispatched after the state has changed): the
\* ---- state guards at the top of each handler decide what happens.
StrayStart ==
    /\ UNCHANGED <<perform, mainWindow>>
    /\ Released /\ Running
    /\ currentState # "idle"
    /\ rend.acquiring < MaxAcquire
    /\ RendDo(startRecording(rend))
    /\ UNCHANGED <<mainVars, toRend>>

StrayStop ==
    /\ UNCHANGED <<perform, mainWindow>>
    /\ Released /\ Running
    /\ currentState # "recording"
    /\ \E sv \in BOOLEAN : RendDo(stopRecording(rend, sv))
    /\ UNCHANGED <<mainVars, toRend>>

StrayRetry ==
    /\ UNCHANGED <<perform, mainWindow>>
    /\ Released /\ Running
    /\ currentState # "error"
    /\ RendDo(handleRetry(rend))
    /\ UNCHANGED <<mainVars, toRend>>

StrayCancelError ==
    /\ UNCHANGED <<perform, mainWindow>>
    /\ Released /\ Running
    /\ currentState # "error"
    /\ RendDo(handleCancelError(rend))
    /\ UNCHANGED <<mainVars, toRend>>

\* ---- getUserMedia resolves / rejects for one awaiting startRecording().
\* The new stream and recorder overwrite the references: a stream or a
\* recorder still referenced at that point is never stopped afterwards (the
\* step itself shows the leak: mediaStream, resp. mediaRecorder = "recording",
\* holds before it).  A recorder overwritten between stop() and its 'stop'
\* event still delivers that event.  Nothing reads the save flag left on
\* such a recorder; it is recorded (track) only where a property observes it.
AcquireOkStep(track) ==
    /\ Released /\ Running
    /\ rend.acquiring > 0
    /\ rend.mediaRecorder = "inactive" /\ rend.stopQueued
          => rend.orphanStops < MaxOrphanStops
    /\ rend' = [rend EXCEPT
          !.acquiring = @ - 1,
          !.mediaStream = TRUE,
          !.orphanStops = IF rend.mediaRecorder = "inactive" /\ rend.stopQueued
                          THEN @ + 1 ELSE @,
          !.orphanSave = IF track /\ rend.mediaRecorder = "inactive" /\ rend.stopQueued
                         THEN rend.shouldSaveAndProcess ELSE @,
          !.mediaRecorder = "recording",
          !.shouldSaveAndProcess = "unset",
          !.stopQueued = FALSE,
          !.currentState = "recording"]
    /\ UNCHANGED <<mainVars, toMain, toRend>>

AcquireOk ==
    /\ UNCHANGED <<perform, mainWindow>>
    /\ AcquireOkStep(FALSE)

AcquireOkTracked ==
    /\ UNCHANGED <<perform, mainWindow>>
    /\ AcquireOkStep(TRUE)

AcquireFailNoCleanup ==
    /\ UNCHANGED <<perform, mainWindow>>
    /\ Released /\ Running
    /\ rend.acquiring > 0
    /\ rend' = setState([rend EXCEPT !.acquiring = @ - 1], "idle")
    /\ UNCHANGED <<mainVars, toMain, toRend>>

\* getUserMedia rejects: the catch block of startRecording
AcquireFail ==
    /\ UNCHANGED <<perform, mainWindow>>
    /\ Released /\ Running
    /\ rend.acquiring > 0
    /\ rend' = setState([cleanUpAudio(rend) EXCEPT !.acquiring = @ - 1], "idle")
    /\ UNCHANGED <<mainVars, toMain, toRend>>

\* ---- MediaRecorder events
\* ondataavailable with a non-empty blob -> handleDataAvailable.  Only
\* handleStop reads recordedChunks, so the chunks of a recording are
\* delivered here between stop() and the 'stop' event (the final blob), which
\* gives handleStop every value it can see.
DataAvailable ==
    /\ UNCHANGED <<perform, mainWindow>>
    /\ Released /\ Running
    /\ rend.stopQueued \/ rend.orphanStops > 0
    /\ ~rend.recordedChunks
    /\ rend' = [rend EXCEPT !.recordedChunks = TRUE]
    /\ UNCHANGED <<mainVars, toMain, toRend>>

\* onerror of the referenced recorder: stopRecording(false)
RecorderError ==
    /\ UNCHANGED <<perform, mainWindow>>
    /\ Released /\ Running
    /\ rend.mediaRecorder = "recording"
    /\ RendDo(stopRecording(rend, FALSE))
    /\ UNCHANGED <<mainVars, toRend>>

\* The 'stop' event queued by MediaRecorder.stop() -> handleStop
StopEvent ==
    /\ UNCHANGED <<perform, mainWindow>>
    /\ Released /\ Running
    /\ rend.stopQueued
    /\ RendDo(handleStop([rend EXCEPT !.stopQueued = FALSE]))
    /\ UNCHANGED <<mainVars, toRend>>

\* The same event of a recorder that is no longer referenced: handleStop
\* reads the flag of whatever recorder is referenced now.
OrphanStopEvent ==
    /\ UNCHANGED <<perform, mainWindow>>
    /\ Released /\ Running
    /\ rend.orphanStops > 0
    /\ RendDo(handleStop([rend EXCEPT !.orphanStops = @ - 1,
                                      !.orphanSave = "unset"]))
    /\ UNCHANGED <<mainVars, toRend>>

\* ---- delivery of main -> renderer messages
RendRecv ==
    /\ UNCHANGED <<perform, mainWindow>>
    /\ Released /\ Running
    /\ toRend # <<>>
    /\ LET m == Head(toRend) IN
         CASE m.type = "trigger-start-recording" ->
                 /\ rend.currentState = "idle" => rend.acquiring < MaxAcquire
                 /\ RendDo(handleTriggerStart(rend))
           [] m.type = "trigger-stop-recording" ->
                 RendDo(handleTriggerStop(rend, m.save))
           [] m.type = "transcribe-audio-result" ->
                 RendDo(Res(handleStopResult(rend, m), <<>>))
           [] m.type = "retry-transcription-result" ->
                 RendDo(Res(handleRetryResult(rend, m), <<>>))
    /\ toRend' = Tail(toRend)
    /\ UNCHANGED mainVars

\* ------------------------------------------------------------------ text
\* A transcription text is a sequence of characters; "a" stands for every
\* character String.prototype.trim() keeps.
MaxLen == 4
Whitespace == {" ", "\n"}
Alphabet == Whitespace \cup {"a"}
Texts == UNION {[1..n -> Alphabet] : n \in 0..MaxLen}

RECURSIVE trimStart(_)
trimStart(s) ==
    IF s # <<>> /\ Head(s) \in Whitespace THEN trimStart(Tail(s)) ELSE s

RECURSIVE trimEnd(_)
trimEnd(s) ==
    IF s # <<>> /\ s[Len(s)] \in Whitespace
    THEN trimEnd(SubSeq(s, 1, Len(s) - 1))
    ELSE s

trimStartOnly(s) == trimStart(s)

trimNothing(s) == s

\* transcription.text?.trim()
trim(s) == trimEnd(trimStart(s))

\* `perform` outside an observed execution
NoPerform == [pc |-> "none", text |-> <<>>, clipboard |-> <<>>, pastes |-> 0,
              status |-> "none"]

\* ----------------------------------------------------------- main process
Mp3(id) == <<id, "mp3">>
Webm(id) == <<id, "webm">>

hideMainWindowAlways(vis, slot) == FALSE

\* hideMainWindow(): hide unless a retry is pending
hideMainWindow(vis, slot) == IF vis /\ slot = NoPath THEN FALSE ELSE vis

\* cleanupTempFile(path): request the asynchronous unlink
cleanupTempFileSkipped(pending, paths) == pending

cleanupTempFile(pending, paths) == pending \cup paths

cancelPendingRetryKeepsSlot(slot, pending, vis) ==
    IF slot # NoPath
    THEN [slot |-> slot,
          unlinking |-> cleanupTempFile(pending, {Mp3(slot)}),
          vis |-> hideMainWindow(vis, NoPath)]
    ELSE [slot |-> slot, unlinking |-> pending, vis |-> hideMainWindow(vis, slot)]

\* cancelPendingRetry(): new slot, unlink requests and window visibility
cancelPendingRetry(slot, pending, vis) ==
    IF slot # NoPath
    THEN [slot |-> NoPath,
          unlinking |-> cleanupTempFile(pending, {Mp3(slot)}),
          vis |-> hideMainWindow(vis, NoPath)]
    ELSE [slot |-> slot, unlinking |-> pending, vis |-> hideMainWindow(vis, slot)]

\* The decision of the globalShortcut callback once it holds the lock.
HotkeyDecisionVisibleFirst(slot, vis) ==
    IF vis THEN "stop"
    ELSE IF slot # NoPath THEN "cancel"
    ELSE "start"

HotkeyDecision(slot, vis) ==
    IF slot # NoPath THEN "cancel"
    ELSE IF vis THEN "stop"
    ELSE "start"

\* globalShortcut callback
Hotkey ==
    /\ UNCHANGED <<perform, mainWindow>>
    /\ Running
    /\ IF isProcessingShortcut
       THEN UNCHANGED vars
       ELSE LET d == HotkeyDecision(lastFailedMp3Path, winVisible) IN
         /\ isProcessingShortcut' = TRUE
         /\ lockTimer' = d
         /\ CASE d = "cancel" ->
                  LET c == cancelPendingRetry(lastFailedMp3Path, unlinking, winVisible) IN
                  /\ lastFailedMp3Path' = c.slot
                  /\ unlinking' = c.unlinking
                  /\ winVisible' = c.vis
                  /\ UNCHANGED <<startTimers, toRend>>
              [] d = "stop" ->
                  /\ Len(toRend) < MaxQueue
                  /\ toRend' = Append(toRend, TriggerStop(TRUE))
                  /\ UNCHANGED <<lastFailedMp3Path, unlinking, winVisible, startTimers>>
              [] d = "start" ->
                  /\ startTimers < MaxTimers
                  /\ winVisible' = TRUE
                  /\ startTimers' = startTimers + 1
                  /\ UNCHANGED <<lastFailedMp3Path, unlinking, toRend>>
         /\ UNCHANGED <<ops, files, toMain, rend>>

\* The callback with the decision throwing before any of its effects: the
\* catch logs, the finally sets the release timer.
HotkeyThrows ==
    /\ UNCHANGED <<perform, mainWindow>>
    /\ Running
    /\ ~isProcessingShortcut
    /\ isProcessingShortcut' = TRUE
    /\ lockTimer' = "threw"
    /\ UNCHANGED <<lastFailedMp3Path, winVisible, startTimers, ops, files, unlinking,
                   toMain, toRend, rend>>

LockTimerFireNoReset ==
    /\ UNCHANGED <<perform, mainWindow>>
    /\ Running
    /\ lockTimer # "none"
    /\ lockTimer' = "none"
    /\ UNCHANGED <<lastFailedMp3Path, winVisible, isProcessingShortcut, startTimers,
                   ops, files, unlinking, toMain, toRend, rend>>

\* setTimeout(() => { isProcessingShortcut = false }, 0)
LockTimerFire ==
    /\ UNCHANGED <<perform, mainWindow>>
    /\ Running
    /\ lockTimer # "none"
    /\ isProcessingShortcut' = FALSE
    /\ lockTimer' = "none"
    /\ UNCHANGED <<lastFailedMp3Path, winVisible, startTimers, ops, files, unlinking,
                   toMain, toRend, rend>>

StartTimerFireUnchecked ==
    /\ UNCHANGED <<perform, mainWindow>>
    /\ Released /\ Running
    /\ startTimers > 0
    /\ startTimers' = startTimers - 1
    /\ Len(toRend) < MaxQueue
    /\ toRend' = Append(toRend, TriggerStart)
    /\ UNCHANGED <<lastFailedMp3Path, winVisible, isProcessingShortcut, lockTimer,
                   ops, files, unlinking, toMain, rend>>

\* setTimeout(() => { if visible: send trigger-start-recording }, 50)
StartTimerFire ==
    /\ UNCHANGED <<perform, mainWindow>>
    /\ Released /\ Running
    /\ startTimers > 0
    /\ startTimers' = startTimers - 1
    /\ IF winVisible
       THEN /\ Len(toRend) < MaxQueue
            /\ toRend' = Append(toRend, TriggerStart)
       ELSE UNCHANGED toRend
    /\ UNCHANGED <<lastFailedMp3Path, winVisible, isProcessingShortcut, lockTimer,
                   ops, files, unlinking, toMain, rend>>

\* mainWindow 'blur'
Blur ==
    /\ UNCHANGED <<perform, mainWindow>>
    /\ Released /\ Running
    /\ winVisible
    /\ winVisible' = hideMainWindow(winVisible, lastFailedMp3Path)
    /\ UNCHANGED <<lastFailedMp3Path, isProcessingShortcut, lockTimer, startTimers,
                   ops, files, unlinking, toMain, toRend, rend>>

\* fs.promises.unlink completes (or fails with ENOENT, which is only logged)
UnlinkDone ==
    /\ UNCHANGED <<perform, mainWindow>>
    /\ Released /\ quit' = quit
    /\ \E f \in unlinking :
        /\ unlinking' = unlinking \ {f}
        /\ files' = files \ {f}
        /\ UNCHANGED <<lastFailedMp3Path, winVisible, isProcessingShortcut, lockTimer,
                       startTimers, ops, toMain, toRend, rend>>

\* A timestamp no temp file, request or handler refers to.
UsedIds == {f[1] : f \in files \cup unlinking} \cup {o.id : o \in ops}
              \cup ({o.stale : o \in ops} \ {NoPath})
              \cup (IF lastFailedMp3Path = NoPath THEN {} ELSE {lastFailedMp3Path})
FreshIds == FileIds \ UsedIds

\* A handler invocation: its position, its timestamp, its two file flags,
\* and `stale`, the path it found in the slot and handed to cleanupTempFile
\* on entry (NoPath if the slot was empty).
Op(k, pc, id, w, m, st) ==
    [kind |-> k, pc |-> pc, id |-> id, webm |-> w, mp3 |-> m, stale |-> st]

\* ipcMain.on('hide-window')
RecvHideWindow ==
    /\ UNCHANGED <<perform, mainWindow>>
    /\ Released /\ Running
    /\ toMain # <<>> /\ Head(toMain) = "hide-window"
    /\ toMain' = Tail(toMain)
    /\ winVisible' = hideMainWindow(winVisible, lastFailedMp3Path)
    /\ UNCHANGED <<lastFailedMp3Path, isProcessingShortcut, lockTimer, startTimers,
                   ops, files, unlinking, toRend, rend>>

\* ipcMain.on('cancel-retry')
RecvCancelRetry ==
    /\ UNCHANGED <<perform, mainWindow>>
    /\ Released /\ Running
    /\ toMain # <<>> /\ Head(toMain) = "cancel-retry"
    /\ toMain' = Tail(toMain)
    /\ LET c == cancelPendingRetry(lastFailedMp3Path, unlinking, winVisible) IN
         /\ lastFailedMp3Path' = c.slot
         /\ unlinking' = c.unlinking
         /\ winVisible' = c.vis
    /\ UNCHANGED <<isProcessingShortcut, lockTimer, startTimers, ops, files,
                   toRend, rend>>

\* ipcMain.handle('transcribe-audio') up to its first await (writeFile)
RecvTranscribe ==
    /\ UNCHANGED <<perform, mainWindow>>
    /\ Released /\ Running
    /\ toMain # <<>> /\ Head(toMain) = "transcribe-audio"
    /\ Cardinality(ops) < MaxInFlight
    /\ toMain' = Tail(toMain)
    /\ unlinking' = IF lastFailedMp3Path # NoPath
                    THEN cleanupTempFile(unlinking, {Mp3(lastFailedMp3Path)})
                    ELSE unlinking
    /\ lastFailedMp3Path' = NoPath
    /\ \E id \in FreshIds :
          /\ \A j \in FreshIds : id <= j
          /\ ops' = ops \cup {Op("transcribe", "write", id, FALSE, FALSE, lastFailedMp3Path)}
    /\ UNCHANGED <<winVisible, isProcessingShortcut, lockTimer, startTimers, files,
                   toRend, rend>>

RecvTranscribeEmptyUnchecked ==
    /\ UNCHANGED <<perform, mainWindow>>
    /\ Released /\ Running
    /\ toMain # <<>> /\ Head(toMain) = "transcribe-audio"
    /\ Cardinality(ops) < MaxInFlight
    /\ toMain' = Tail(toMain)
    /\ lastFailedMp3Path' = NoPath
    /\ \E id \in FreshIds :
          ops' = ops \cup {Op("transcribe", "write", id, FALSE, FALSE, lastFailedMp3Path)}
    /\ UNCHANGED <<winVisible, isProcessingShortcut, lockTimer, startTimers, files,
                   unlinking, toRend, rend>>

\* ipcMain.handle('transcribe-audio') called with a buffer of length 0: the
\* slot is cleaned up and cleared, then the handler returns its default
\* result with error "No audio data received." ("no-audio") before the try
\* block, so that neither the finally block nor hideMainWindow runs.
RecvTranscribeEmpty ==
    /\ UNCHANGED <<perform, mainWindow>>
    /\ Released /\ Running
    /\ toMain # <<>> /\ Head(toMain) = "transcribe-audio"
    /\ toMain' = Tail(toMain)
    /\ unlinking' = IF lastFailedMp3Path # NoPath
                    THEN cleanupTempFile(unlinking, {Mp3(lastFailedMp3Path)})
                    ELSE unlinking
    /\ lastFailedMp3Path' = NoPath
    /\ Len(toRend) < MaxQueue
    /\ toRend' = Append(toRend, StopResult(FALSE, FALSE, "no-audio"))
    /\ UNCHANGED <<winVisible, isProcessingShortcut, lockTimer, startTimers, ops, files,
                   rend>>

RecvRetryUnchecked ==
    /\ UNCHANGED <<perform, mainWindow>>
    /\ Released /\ Running
    /\ toMain # <<>> /\ Head(toMain) = "retry-transcription"
    /\ toMain' = Tail(toMain)
    /\ Cardinality(ops) < MaxInFlight
    /\ ops' = ops \cup {Op("retry", "call", lastFailedMp3Path, FALSE, TRUE, NoPath)}
    /\ lastFailedMp3Path' = NoPath
    /\ UNCHANGED <<winVisible, isProcessingShortcut, lockTimer, startTimers, files,
                   unlinking, rend, toRend>>

\* ipcMain.handle('retry-transcription') up to its await of the operation
RecvRetry ==
    /\ UNCHANGED <<perform, mainWindow>>
    /\ Released /\ Running
    /\ toMain # <<>> /\ Head(toMain) = "retry-transcription"
    /\ toMain' = Tail(toMain)
    /\ IF lastFailedMp3Path = NoPath
       THEN /\ Len(toRend) < MaxQueue
            /\ toRend' = Append(toRend, RetryResult(FALSE, FALSE, "no-retry"))
            /\ UNCHANGED <<lastFailedMp3Path, ops>>
       ELSE /\ Cardinality(ops) < MaxInFlight
            /\ ops' = ops \cup {Op("retry", "call", lastFailedMp3Path, FALSE, TRUE, NoPath)}
            /\ lastFailedMp3Path' = NoPath
            /\ UNCHANGED toRend
    /\ UNCHANGED <<winVisible, isProcessingShortcut, lockTimer, startTimers, files,
                   unlinking, rend>>

\* The inner catch of _performTranscriptionAndPasting: operationStatus.error
\* for a failed clipboard write or paste (${...} is the thrown message).
PasteFailedNoHint == "Paste failed: ${copyOrPasteError.message}."

PasteFailed == "Paste failed: ${copyOrPasteError.message}. Text copied."

\* The messages thrown by the catch around the ffmpeg command and the stat
\* of its output (encoder not found, invalid input, any other failure).
ConversionFailed == "ffmpeg ..."

\* if (webmFileWritten) cleanupTempFile(tempFilePathWebm)
writtenWebmKept(o) == {}

writtenWebm(o) == IF o.webm THEN {Webm(o.id)} ELSE {}

\* if (mp3FileCreated) cleanupTempFile(tempFilePathMp3)
createdMp3(o) == IF o.mp3 THEN {Mp3(o.id)} ELSE {}

\* The end of a handler invocation o with result (ok, rt): the finally block
\* of 'transcribe-audio', or the result branches of 'retry-transcription';
\* then the reply to the renderer.  vis and fs are the visibility and the
\* files at that point.  Nothing reads a raw .webm after its handler ended,
\* so its unlink is taken to complete with the request; the unlink of a
\* converted .mp3 stays pending until UnlinkDone.
Finish(o, ok, rt, vis, fs) ==
    LET err == IF ok THEN "none"
               ELSE IF o.pc = "paste" THEN PasteFailed
               ELSE IF o.pc = "ffmpeg" THEN ConversionFailed
               ELSE "failed"
        raw == writtenWebm(o)
        converted == createdMp3(o)
    IN
    /\ Len(toRend) < MaxQueue
    /\ ops' = ops \ {o}
    /\ IF o.kind = "transcribe"
       THEN /\ toRend' = Append(toRend, StopResult(ok, rt, err))
            /\ files' = fs \ raw
            /\ IF rt
               THEN /\ lastFailedMp3Path' = o.id
                    /\ unlinking' = unlinking
                    /\ winVisible' = vis
               ELSE /\ lastFailedMp3Path' = lastFailedMp3Path
                    /\ unlinking' = cleanupTempFile(unlinking, converted)
                    /\ winVisible' = hideMainWindow(vis, lastFailedMp3Path)
       ELSE /\ toRend' = Append(toRend, RetryResult(ok, rt, err))
            /\ files' = fs
            /\ IF ok
               THEN /\ lastFailedMp3Path' = lastFailedMp3Path
                    /\ unlinking' = cleanupTempFile(unlinking, {Mp3(o.id)})
                    /\ winVisible' = hideMainWindow(vis, lastFailedMp3Path)
               ELSE IF rt
               THEN /\ lastFailedMp3Path' = o.id
                    /\ unlinking' = unlinking
                    /\ winVisible' = vis
               ELSE /\ lastFailedMp3Path' = lastFailedMp3Path
                    /\ unlinking' = cleanupTempFile(unlinking, {Mp3(o.id)})
                    /\ winVisible' = hideMainWindow(vis, lastFailedMp3Path)

\* fs.promises.writeFile(tempFilePathWebm) resolves or rejects
OpWrite ==
    /\ UNCHANGED <<perform, mainWindow>>
    /\ Released /\ Running
    /\ \E o \in ops :
      /\ o.pc = "write"
      /\ \/ /\ files' = files \cup {Webm(o.id)}
            /\ ops' = (ops \ {o}) \cup {[o EXCEPT !.pc = "ffmpeg", !.webm = TRUE]}
            /\ UNCHANGED <<lastFailedMp3Path, winVisible, unlinking, toRend>>
         \/ Finish(o, FALSE, FALSE, winVisible, files)
      /\ UNCHANGED <<isProcessingShortcut, lockTimer, startTimers, toMain, rend>>

\* execPromise(ffmpeg) and stat: a non-empty mp3, an empty mp3 (silence),
\* or a failure
OpFfmpeg ==
    /\ UNCHANGED <<perform, mainWindow>>
    /\ Released /\ Running
    /\ \E o \in ops :
      /\ o.pc = "ffmpeg"
      /\ \/ /\ files' = files \cup {Mp3(o.id)}
            /\ ops' = (ops \ {o}) \cup {[o EXCEPT !.pc = "call", !.mp3 = TRUE]}
            /\ UNCHANGED <<lastFailedMp3Path, winVisible, unlinking, toRend>>
         \/ Finish(o, TRUE, FALSE, winVisible, files \cup {Mp3(o.id)})
         \/ Finish(o, FALSE, FALSE, winVisible, files)
      /\ UNCHANGED <<isProcessingShortcut, lockTimer, startTimers, toMain, rend>>

\* The errors the try block of _performTranscriptionAndPasting can throw, as
\* far as the code tells them apart: an OpenAI.APIError or not, its HTTP
\* status (0: none), its `code` ("none": no code).
Statuses == {0, 400, 401, 404, 408, 429, 500, 502, 503, 504}
Codes == {"none", "ENOENT", "ECONNRESET", "ETIMEDOUT", "ENOTFOUND", "EACCES"}
Errors == [api : BOOLEAN, status : Statuses, code : Codes]

\* fs.promises.access rejects: the file is gone
AccessError == [api |-> FALSE, status |-> 0, code |-> "ENOENT"]

retryableStatuses == {408, 429, 500, 502, 503, 504}

isRetryableErrorNo408(error) ==
    error.api /\ error.status \in retryableStatuses \ {408}

\* isRetryableError(error)
isRetryableError(error) == error.api /\ error.status \in retryableStatuses

\* The catch block of _performTranscriptionAndPasting: operationStatus.retryable
catchRetryable(error) ==
    IF error.api THEN isRetryableError(error)
    ELSE IF error.code = "ENOENT" THEN FALSE
    ELSE IF error.code \in {"ECONNRESET", "ETIMEDOUT", "ENOTFOUND"} THEN TRUE
    ELSE isRetryableError(error)

\* The values operationStatus.retryable takes when the try block throws.
ThrownRetryable == {catchRetryable(error) : error \in Errors}

\* The transcription is non-empty after trim(): clipboard.writeText, then
\* pasteTextIntoActiveWindow hides the window (unless a retry is pending) and
\* awaits the paste command.
CallText(o) ==
    /\ ops' = (ops \ {o}) \cup {[o EXCEPT !.pc = "paste"]}
    /\ winVisible' = hideMainWindow(winVisible, lastFailedMp3Path)
    /\ UNCHANGED <<lastFailedMp3Path, unlinking, toRend, files>>

\* The transcription is empty after trim(): success, nothing copied or pasted.
CallEmpty(o) == Finish(o, TRUE, FALSE, winVisible, files)

\* The paste command resolves: operationStatus.success = true
PasteResolves(o) == Finish(o, TRUE, FALSE, winVisible, files)

\* The paste command rejects: the inner catch
PasteRejects(o) == Finish(o, FALSE, FALSE, winVisible, files)

\* _performTranscriptionAndPasting: access check and the transcription call.
OpCall ==
    /\ UNCHANGED <<perform, mainWindow>>
    /\ Released /\ Running
    /\ \E o \in ops :
      /\ o.pc = "call"
      /\ IF Mp3(o.id) \notin files
         THEN Finish(o, FALSE, catchRetryable(AccessError), winVisible, files)
         ELSE \/ CallText(o)
              \/ CallEmpty(o)
              \/ \E rt \in ThrownRetryable :
                    Finish(o, FALSE, rt, winVisible, files)      \* the call throws
      /\ UNCHANGED <<isProcessingShortcut, lockTimer, startTimers, toMain, rend>>

\* the paste command resolves or rejects
OpPaste ==
    /\ UNCHANGED <<perform, mainWindow>>
    /\ Released /\ Running
    /\ \E o \in ops :
      /\ o.pc = "paste"
      /\ \/ PasteResolves(o)
         \/ PasteRejects(o)
      /\ UNCHANGED <<isProcessingShortcut, lockTimer, startTimers, toMain, rend>>

\* app.on('will-quit'): the slot's file is handed to cleanupTempFile, then the
\* process exits.  Exit discards everything held in memory (handlers in
\* flight, timers, IPC messages, the renderer); the files on disk and the
\* unlink requests already issued remain.
WillQuit ==
    /\ UNCHANGED <<perform, mainWindow>>
    /\ Released /\ ~quit
    /\ quit' = TRUE
    /\ unlinking' = IF lastFailedMp3Path # NoPath
                    THEN cleanupTempFile(unlinking, {Mp3(lastFailedMp3Path)})
                    ELSE unlinking
    /\ lastFailedMp3Path' = NoPath
    /\ winVisible' = FALSE
    /\ isProcessingShortcut' = FALSE
    /\ startTimers' = 0
    /\ ops' = {}
    /\ toMain' = <<>>
    /\ toRend' = <<>>
    /\ rend' = InitRend
    /\ UNCHANGED <<files, lockTimer>>

\* ---------------------------------------------------------- specification
Init ==
    /\ lastFailedMp3Path = NoPath
    /\ winVisible = FALSE
    /\ isProcessingShortcut = FALSE
    /\ lockTimer = "none"
    /\ startTimers = 0
    /\ ops = {}
    /\ files = {}
    /\ unlinking = {}
    /\ quit = FALSE
    /\ toMain = <<>>
    /\ toRend = <<>>
    /\ rend = InitRend
    /\ perform = NoPerform
    /\ mainWindow = "window"

Next ==
    \/ Hotkey \/ LockTimerFire \/ StartTimerFire \/ Blur \/ UnlinkDone
    \/ RecvHideWindow \/ RecvCancelRetry \/ RecvTranscribe \/ RecvRetry
    \/ OpWrite \/ OpFfmpeg \/ OpCall \/ OpPaste
    \/ ClickMic \/ ClickCancelRecording \/ ClickConfirm \/ ClickRetry \/ ClickCancelError
    \/ AcquireOk \/ AcquireFail \/ DataAvailable \/ RecorderError
    \/ StopEvent \/ OrphanStopEvent \/ RendRecv
    \/ WillQuit

Spec == Init /\ [][Next]_vars

TypeOK ==
    /\ lastFailedMp3Path \in FileIds \cup {NoPath}
    /\ winVisible \in BOOLEAN
    /\ isProcessingShortcut \in BOOLEAN
    /\ quit \in BOOLEAN
    /\ lockTimer \in {"none", "cancel", "stop", "start", "threw", "recreate"}
    /\ startTimers \in 0..MaxTimers
    /\ Cardinality(ops) <= MaxInFlight
    /\ Len(toMain) <= MaxQueue /\ Len(toRend) <= MaxQueue
    /\ rend.currentState \in {"idle", "recording", "processing", "error"}
    /\ rend.acquiring \in 0..MaxAcquire
    /\ mainWindow \in {"window", "created", "null"}

\* ------------------------------------------------------------- fairness
\* The 0 ms timer set in the finally block of the shortcut callback fires:
\* the event loop runs every expired timer.  The program driven by the hotkey
\* alone, a press possibly throwing; the buttons, focus loss, quit, recorder
\* errors and the completion of unlinks are left out (while the timer is
\* pending no step but a further key press is taken before it, whichever
\* steps the program has).
NextLock ==
    \/ Hotkey \/ HotkeyThrows \/ LockTimerFire \/ StartTimerFire
    \/ RecvHideWindow \/ RecvCancelRetry \/ RecvTranscribe
    \/ OpWrite \/ OpFfmpeg \/ OpCall \/ OpPaste
    \/ AcquireOk \/ AcquireFail \/ DataAvailable \/ StopEvent \/ RendRecv

SpecLock == Init /\ [][NextLock]_vars /\ WF_vars(LockTimerFire)

\* ------------------------------------------- handlers invoked out of state
\* The program after the first hotkey press (the overlay is shown, the start
\* trigger is scheduled, the lock is released), driven by the buttons from
\* then on, with every renderer handler also invoked from the states its
\* guard rejects.  Further presses, focus loss, quit, recorder errors and the
\* completion of unlinks are left out: they do not touch the guards.
InitStray ==
    /\ lastFailedMp3Path = NoPath
    /\ winVisible = TRUE
    /\ isProcessingShortcut = FALSE
    /\ lockTimer = "none"
    /\ startTimers = 1
    /\ ops = {}
    /\ files = {}
    /\ unlinking = {}
    /\ quit = FALSE
    /\ toMain = <<>>
    /\ toRend = <<>>
    /\ rend = InitRend
    /\ perform = NoPerform
    /\ mainWindow = "window"

NextStray ==
    \/ StartTimerFire
    \/ RecvHideWindow \/ RecvCancelRetry \/ RecvTranscribe \/ RecvRetry
    \/ OpWrite \/ OpFfmpeg \/ OpCall \/ OpPaste
    \/ ClickMic \/ ClickCancelRecording \/ ClickConfirm \/ ClickRetry \/ ClickCancelError
    \/ AcquireOk \/ AcquireFail \/ DataAvailable \/ StopEvent \/ RendRecv
    \/ StrayStart \/ StrayStop \/ StrayRetry \/ StrayCancelError

SpecStray == InitStray /\ [][NextStray]_vars

\* -------------------------------------------------- discarded recordings
\* The program after the first hotkey press, driven by the buttons, with the
\* save flag of a replaced recorder recorded.
NextDiscard ==
    \/ StartTimerFire
    \/ RecvHideWindow \/ RecvCancelRetry \/ RecvTranscribe \/ RecvRetry
    \/ OpWrite \/ OpFfmpeg \/ OpCall \/ OpPaste
    \/ ClickMic \/ ClickCancelRecording \/ ClickConfirm \/ ClickRetry \/ ClickCancelError
    \/ AcquireOkTracked \/ AcquireFail \/ DataAvailable \/ RecorderError
    \/ StopEvent \/ OrphanStopEvent \/ RendRecv

SpecDiscard == InitStray /\ [][NextDiscard]_vars

\* ------------------------------------------------ progress of an attempt
\* The program after the first hotkey press, driven by the buttons.  A step
\* the user does not decide is a task of an event loop or the settling of a
\* pending promise (the start timer, an IPC delivery, an event of a stopped
\* recorder, getUserMedia, a file operation, the transcription call, the
\* paste command, an unlink): while one is pending, one is run.  Further
\* presses, focus loss, quit and recorder errors are left out.
SystemStep ==
    \/ StartTimerFire \/ UnlinkDone
    \/ RecvHideWindow \/ RecvCancelRetry \/ RecvTranscribe \/ RecvRetry
    \/ OpWrite \/ OpFfmpeg \/ OpCall \/ OpPaste
    \/ AcquireOk \/ AcquireFail \/ DataAvailable
    \/ StopEvent \/ OrphanStopEvent \/ RendRecv

UserStep ==
    ClickMic \/ ClickCancelRecording \/ ClickConfirm \/ ClickRetry \/ ClickCancelError

NextProgress == SystemStep \/ UserStep

Progress == WF_vars(SystemStep)

SpecProgress == InitStray /\ [][NextProgress]_vars /\ Progress

\* ------------------------------------------------- hotkey presses alone
\* The program driven by the hotkey alone, the user pressing it again once
\* the program has come to rest: no timer, message, handler invocation or
\* recorder event is pending (getUserMedia, which may wait for the user's
\* permission, and unlinks may be).  While something is pending, the event
\* loops run it.
Settled ==
    /\ lockTimer = "none" /\ startTimers = 0
    /\ toMain = <<>> /\ toRend = <<>> /\ ops = {}
    /\ ~rend.stopQueued /\ rend.orphanStops = 0

HotkeySettled == Settled /\ Hotkey

Pending ==
    \/ LockTimerFire \/ StartTimerFire \/ UnlinkDone
    \/ RecvHideWindow \/ RecvCancelRetry \/ RecvTranscribe
    \/ OpWrite \/ OpFfmpeg \/ OpCall \/ OpPaste
    \/ AcquireOk \/ AcquireFail \/ DataAvailable
    \/ StopEvent \/ OrphanStopEvent \/ RendRecv

NextPresses == HotkeySettled \/ Pending

SpecPresses ==
    Init /\ [][NextPresses]_vars /\ WF_vars(Pending) /\ WF_vars(HotkeySettled)

\* ------------------------------------------------------ the window's life
\* The overlay window can be closed while the process stays alive (on macOS
\* 'window-all-closed' does not quit).  The program driven by the hotkey, the
\* mic and cancel buttons and focus loss, with recordings stopped before any
\* audio arrived, so that no transcription request is in flight when the
\* window goes away.

\* mainWindow 'closed': mainWindow = null.  The renderer, its closure state
\* and the messages on their way to it go with the window.
WindowClosed ==
    /\ UNCHANGED perform
    /\ Released /\ Running
    /\ mainWindow # "null"
    /\ mainWindow' = "null"
    /\ winVisible' = FALSE
    /\ rend' = InitRend
    /\ toRend' = <<>>
    /\ UNCHANGED <<lastFailedMp3Path, isProcessingShortcut, lockTimer, startTimers,
                   ops, files, unlinking, toMain>>

\* globalShortcut callback while the window exists (or the lock is held)
HotkeyWindow ==
    /\ mainWindow # "null" \/ isProcessingShortcut
    /\ Hotkey

\* globalShortcut callback, `mainWindow` null or destroyed: createWindow()
\* and mainWindow.once('ready-to-show', ...)
HotkeyRecreate ==
    /\ UNCHANGED perform
    /\ Running
    /\ mainWindow = "null" /\ ~isProcessingShortcut
    /\ isProcessingShortcut' = TRUE
    /\ lockTimer' = "recreate"
    /\ mainWindow' = "created"
    /\ UNCHANGED <<lastFailedMp3Path, winVisible, startTimers, ops, files, unlinking,
                   toMain, toRend, rend>>

\* 'ready-to-show' of the recreated window: showInactive() and the 50 ms
\* timer of the start trigger
ReadyToShow ==
    /\ UNCHANGED perform
    /\ Released /\ Running
    /\ mainWindow = "created"
    /\ startTimers < MaxTimers
    /\ mainWindow' = "window"
    /\ winVisible' = TRUE
    /\ startTimers' = startTimers + 1
    /\ UNCHANGED <<lastFailedMp3Path, isProcessingShortcut, lockTimer, ops, files,
                   unlinking, toMain, toRend, rend>>

NextWindow ==
    \/ HotkeyWindow \/ HotkeyRecreate \/ WindowClosed \/ ReadyToShow
    \/ LockTimerFire \/ StartTimerFire \/ Blur \/ RecvHideWindow
    \/ ClickMic \/ ClickCancelRecording
    \/ AcquireOk \/ AcquireFail \/ StopEvent \/ RendRecv

SpecWindow == Init /\ [][NextWindow]_vars

\* ------------------------------------------------------- empty recordings
\* The program after the first hotkey press, driven by the buttons, where the
\* buffer a 'transcribe-audio' request carries may have length 0.
NextEmpty ==
    \/ StartTimerFire \/ UnlinkDone
    \/ RecvHideWindow \/ RecvCancelRetry \/ RecvTranscribe \/ RecvTranscribeEmpty
    \/ RecvRetry
    \/ OpWrite \/ OpFfmpeg \/ OpCall \/ OpPaste
    \/ ClickMic \/ ClickCancelRecording \/ ClickConfirm \/ ClickRetry \/ ClickCancelError
    \/ AcquireOk \/ AcquireFail \/ DataAvailable \/ StopEvent \/ RendRecv

SpecEmpty == InitStray /\ [][NextEmpty]_vars

\* ---------------------------------------- one execution, text made explicit
\* The first attempt of a recording has reached _performTranscriptionAndPasting:
\* both files are on disk, the renderer awaits the result in 'processing'.
\* The text the service will return and the clipboard content are inputs.
Clipboards == {<<>>, <<"a", " ">>}

InitPerform ==
    /\ lastFailedMp3Path = NoPath
    /\ winVisible \in BOOLEAN
    /\ isProcessingShortcut = FALSE
    /\ lockTimer = "none"
    /\ startTimers = 0
    /\ ops = {Op("transcribe", "call", 1, TRUE, TRUE, NoPath)}
    /\ files = {Webm(1), Mp3(1)}
    /\ unlinking = {}
    /\ quit = FALSE
    /\ toMain = <<>>
    /\ toRend = <<>>
    /\ rend = [InitRend EXCEPT !.currentState = "processing",
                               !.mediaRecorder = "inactive",
                               !.mediaStream = TRUE]
    /\ perform \in [pc : {"call"}, text : Texts, clipboard : Clipboards,
                     pastes : {0}, status : {"none"}]
    /\ mainWindow = "window"

\* openai.audio.transcriptions.create resolves with perform.text
PerformCall ==
    /\ Released /\ Running
    /\ perform.pc = "call"
    /\ \E o \in ops :
        /\ o.pc = "call"
        /\ LET transcribedText == trim(perform.text) IN
           IF Len(transcribedText) > 0
           THEN /\ CallText(o)
                /\ perform' = [perform EXCEPT !.pc = "paste",
                                               !.clipboard = transcribedText]
           ELSE /\ CallEmpty(o)
                /\ perform' = [perform EXCEPT !.pc = "done", !.status = "success"]
    /\ UNCHANGED <<isProcessingShortcut, lockTimer, startTimers, toMain, rend, mainWindow>>

\* pasteTextIntoActiveWindow runs the paste command, which resolves or rejects
PerformPaste ==
    /\ Released /\ Running
    /\ perform.pc = "paste"
    /\ \E o \in ops :
        /\ o.pc = "paste"
        /\ \/ /\ PasteResolves(o)
              /\ perform' = [perform EXCEPT !.pc = "done", !.pastes = @ + 1,
                                             !.status = "success"]
           \/ /\ PasteRejects(o)
              /\ perform' = [perform EXCEPT !.pc = "done", !.pastes = @ + 1,
                                             !.status = "failed"]
    /\ UNCHANGED <<isProcessingShortcut, lockTimer, startTimers, toMain, rend, mainWindow>>

NextPerform == PerformCall \/ PerformPaste \/ RendRecv \/ UnlinkDone

SpecPerform == InitPerform /\ [][NextPerform]_vars

\* ------------------------------------------------------------------ claims
\* Nothing is in flight: no IPC message, handler invocation, timer, unlink,
\* device acquisition or recorder event is pending.
Quiescent ==
    /\ toMain = <<>> /\ toRend = <<>> /\ ops = {}
    /\ lockTimer = "none" /\ startTimers = 0 /\ unlinking = {}
    /\ rend.acquiring = 0 /\ ~rend.stopQueued /\ rend.orphanStops = 0

\* A hotkey press that is not dropped: the callback takes the lock.
HotkeyAcquires == ~isProcessingShortcut /\ isProcessingShortcut'

\* C1: the UI state is 'error' iff the retry slot is occupied.  Stated for
\* the states with nothing in flight; the claim asserts it of every state.
C1_ErrorIffSlotOccupied ==
    Quiescent => ((currentState = "error") <=> (lastFailedMp3Path # NoPath))

\* C2: at most one converted .mp3 file exists on disk (a file stays in
\* `files` until its unlink completes).  Stated for the states with nothing
\* in flight; the claim asserts it of every observation point.
Mp3OnDisk == {f \in files : f[2] = "mp3"}
C2_AtMostOneMp3 == Quiescent => Cardinality(Mp3OnDisk) <= 1

\* C3: at most one execution of _performTranscriptionAndPasting is in
\* flight at any time.
Performing == {o \in ops : o.pc \in {"call", "paste"}}
C3_OneTranscriptionInFlight == Cardinality(Performing) <= 1

\* C4: while the start or stop trigger of an earlier press has not been
\* delivered to the renderer (its start timer is pending or its trigger is
\* in the channel), a further press is dropped: it does not take the lock.
TriggerUndelivered ==
    \/ startTimers > 0
    \/ \E i \in 1..Len(toRend) :
          toRend[i].type \in {"trigger-start-recording", "trigger-stop-recording"}
C4_SecondPressDropped == [][TriggerUndelivered => ~HotkeyAcquires]_vars

C6_SlotEmptyDuringRetry ==
    (\E o \in ops : o.kind = "retry") => lastFailedMp3Path = NoPath

\* C7: when a retry ends in a terminal failure, the UI returns to 'idle'
\* (stated at the delivery of that result to handleRetry).
C7_RetryTerminalToIdle ==
    [][(/\ toRend # <<>> /\ Head(toRend) = RetryResult(FALSE, FALSE, "failed")
        /\ toRend' = Tail(toRend))
          => rend'.currentState = "idle"]_vars

\* C8: when the first attempt ends in a terminal failure, the UI goes to
\* 'idle' and does not enter 'error' (stated at the delivery of that result
\* to handleStop).
C8_TerminalToIdle ==
    [][(/\ toRend # <<>>
        /\ Head(toRend) \in {StopResult(FALSE, FALSE, "failed"),
                             StopResult(FALSE, FALSE, ConversionFailed)}
        /\ toRend' = Tail(toRend))
          => rend'.currentState = "idle"]_vars

\* C9: a hotkey press in the error state cancels and forces the UI to
\* 'idle': once the press has cancelled and no message to the renderer is
\* pending, the UI is not left in 'error'.
C9_HotkeyCancelForcesIdle ==
    (lockTimer = "cancel" /\ toRend = <<>> /\ toMain = <<>> /\ ops = {})
        => currentState # "error"

\* C10: a cancel ends in the same state whether it runs once or again: UI
\* 'idle', slot empty, overlay hidden.  Stated for the end of a cancel by
\* hotkey (the release of its lock), with nothing on its way to the renderer.
C10_CancelEndState ==
    [][(lockTimer = "cancel" /\ lockTimer' = "none" /\ toRend = <<>>)
          => /\ rend'.currentState = "idle"
             /\ lastFailedMp3Path' = NoPath
             /\ ~winVisible']_vars

\* C11: no temporary audio file outlives the process: once the process has
\* exited and the unlinks it requested have completed, no temp file is left,
\* whatever was in progress (recording, first attempt, retry) at exit.
C11_NoArtifactOutlivesProcess == (quit /\ unlinking = {}) => files = {}

Returning == IF quit' THEN {} ELSE {o \in ops : \A p \in ops' : p.id # o.id}
Returned == toRend'[Len(toRend')]

\* C13: for every result a handler returns, the result is retryable iff the
\* slot holds that attempt's converted file at the return; for every other
\* result the slot is empty and the attempt's converted file is gone or its
\* unlink has been requested.
C13_RetryableIffSlotHolds ==
    [][\A o \in Returning :
          /\ Returned.retryable <=> lastFailedMp3Path' = o.id
          /\ ~Returned.retryable =>
                /\ lastFailedMp3Path' = NoPath
                /\ Mp3(o.id) \notin files' \ unlinking'
      ]_vars

\* C14: when the conversion yields a zero-byte output (the handler returns
\* success straight from the conversion step), the overlay is hidden and
\* neither the raw file nor the zero-byte converted file remains on disk or
\* lacks a requested unlink.  (No transcription call, clipboard write or paste
\* happens on that path: the invocation never reaches "call" or "paste".)
C14_SilenceLeavesNothing ==
    [][\A o \in Returning :
          (o.pc = "ffmpeg" /\ Returned.success) =>
              /\ ~winVisible'
              /\ Webm(o.id) \notin files'
              /\ Mp3(o.id) \notin files' \ unlinking'
      ]_vars

\* The owner of a temporary file is what will hand it to deletion: the
\* handler invocation that created it or retries it, or the retry slot.
Owned(f) ==
    \/ \E o \in ops : o.id = f[1]
    \/ f[2] = "mp3" /\ lastFailedMp3Path = f[1]

\* C15: every temporary file is handed to deletion exactly once.  While the
\* process runs, a file on disk either still has an owner or has its unlink
\* requested (never zero times), and a file whose unlink was requested has no
\* owner left that could request it again (never twice).
C15_DisposedExactlyOnce ==
    ~quit => /\ \A f \in files \ unlinking : Owned(f)
             /\ \A f \in unlinking : f \in files /\ ~Owned(f)

IsTrimOf(t, s) ==
    \E a, b \in 0..Len(s) :
        /\ a + b <= Len(s)
        /\ t = SubSeq(s, a + 1, Len(s) - b)
        /\ \A i \in 1..a : s[i] \in Whitespace
        /\ \A i \in (Len(s) - b + 1)..Len(s) : s[i] \in Whitespace
        /\ t # <<>> => t[1] \notin Whitespace /\ t[Len(t)] \notin Whitespace
HasText(s) == \E i \in 1..Len(s) : s[i] \notin Whitespace
\* The handler has returned and the renderer has handled the result.
Replied == perform.pc = "done" /\ ops = {} /\ toRend = <<>>

\* C19: for a transcription whose trimmed text is non-empty, the clipboard
\* holds exactly the trimmed text from the moment paste is invoked, paste is
\* invoked exactly once (not before the clipboard write, once when the attempt
\* is over), and after a successful result the UI state is 'idle'.
C19_ClipboardThenPasteOnce ==
    HasText(perform.text) =>
        /\ perform.pc = "call" => perform.pastes = 0
        /\ perform.pc = "paste" =>
              IsTrimOf(perform.clipboard, perform.text) /\ perform.pastes = 0
        /\ perform.pc = "done" =>
              IsTrimOf(perform.clipboard, perform.text) /\ perform.pastes = 1
        /\ (Replied /\ perform.status = "success") => currentState = "idle"
\* A text with surrounding whitespace was transcribed, copied trimmed over a
\* different clipboard content, pasted, and the renderer is back in 'idle'.
C19_Witness ==
    /\ Replied /\ perform.status = "success" /\ currentState = "idle"
    /\ perform.text = <<" ", "a", "\n">>
    /\ perform.clipboard = <<"a">> /\ perform.pastes = 1

C21_ErrorOverlayVisible ==
    [][(/\ toRend # <<>> /\ Head(toRend).retryable
        /\ currentState # "error" /\ currentState' = "error")
          => winVisible'
      ]_vars

\* C22: startRecording invoked outside 'idle', stopRecording outside
\* 'recording', handleRetry or handleCancelError outside 'error' changes
\* nothing: not the UI state nor any other renderer variable (no capture is
\* started), no request is sent to the main process (no transcription), and
\* the retry slot and the files are as before.
C22_InvalidStateNoOp ==
    [][(StrayStart \/ StrayStop \/ StrayRetry \/ StrayCancelError)
          => UNCHANGED <<rend, toMain, lastFailedMp3Path, files, unlinking, ops>>
      ]_vars
\* An attempt is being processed with its files on disk: all four handlers
\* are invoked from a state where none is valid.
C22_Witness ==
    /\ currentState = "processing" /\ rend.acquiring < MaxAcquire
    /\ ops # {} /\ files # {} /\ toMain = <<>> /\ Released /\ ~quit

\* The 'stop' event of a recording session that was stopped with save = false
\* is handled in this step: the session's recorder is still the referenced
\* one, or it has been replaced by the recorder of a later startRecording.
DiscardedStopHandled ==
    \/ StopEvent /\ rend.shouldSaveAndProcess = "false"
    \/ OrphanStopEvent /\ rend.orphanSave = "false"

\* C23: once the stop event of a session stopped with save = false is
\* handled, the UI state is 'idle', hide-window has been sent, and no
\* transcribe-audio request was sent.
C23_DiscardGoesIdle ==
    [][DiscardedStopHandled =>
          /\ currentState' = "idle"
          /\ toMain' = Append(toMain, "hide-window")
      ]_vars

\* C24: the activation lock is reset after every activation attempt: each
\* state with the lock held is eventually followed by one with the lock free.
C24_LockEventuallyFree == isProcessingShortcut ~> ~isProcessingShortcut
\* The lock is held after a press whose decision threw while a retry was
\* pending.
C24_Witness ==
    isProcessingShortcut /\ lockTimer = "threw" /\ lastFailedMp3Path # NoPath

\* C25: the lock is released only after the side effects of the decision
\* have been dispatched: whenever trigger-start-recording or
\* trigger-stop-recording is sent to the renderer, the lock is held.
C25_LockHeldWhenTriggerSent ==
    [][(/\ Len(toRend') = Len(toRend) + 1
        /\ toRend'[Len(toRend')].type
              \in {"trigger-start-recording", "trigger-stop-recording"})
          => isProcessingShortcut'
      ]_vars

\* C26: a retry request handled while the slot is empty is answered with the
\* 'no previous failed attempt' failure (success = false, retryable = false)
\* and changes nothing else: no handler invocation starts, no unlink is
\* requested, no file changes, the slot stays empty, the overlay's visibility
\* is as before.
C26_RetryWithoutSlot ==
    [][(RecvRetry /\ lastFailedMp3Path = NoPath) =>
          /\ toRend' = Append(toRend, RetryResult(FALSE, FALSE, "no-retry"))
          /\ UNCHANGED <<lastFailedMp3Path, ops, files, unlinking, winVisible>>
      ]_vars
\* The renderer is about to receive that answer.
C26_Witness ==
    /\ toRend # <<>> /\ Head(toRend) = RetryResult(FALSE, FALSE, "no-retry")
    /\ lastFailedMp3Path = NoPath /\ ops = {}

\* C27: a 'transcribe-audio' request whose buffer has length 0 is answered
\* with a failure that is not retryable and carries the empty-input error;
\* the handler creates no file, starts no conversion or transcription (no
\* handler invocation stays in flight for it), and leaves the slot empty.
C27_EmptyBufferRejected ==
    [][RecvTranscribeEmpty =>
          /\ toRend' = Append(toRend, StopResult(FALSE, FALSE, "no-audio"))
          /\ UNCHANGED <<ops, files>>
          /\ lastFailedMp3Path' = NoPath]_vars

C27_Witness ==
    /\ toRend # <<>> /\ Head(toRend) = StopResult(FALSE, FALSE, "no-audio")
    /\ lastFailedMp3Path = NoPath /\ unlinking # {}

\* The step in which a handler invocation reaches pasteTextIntoActiveWindow.
PasteInvoked ==
    \E o \in ops' : /\ o.pc = "paste"
                     /\ \E p \in ops : p.id = o.id /\ p.pc = "call"

\* C28: whenever an attempt or a retry invokes the paste into the foreground
\* window, the overlay is hidden.
C28_HiddenWhenPasting ==
    [][PasteInvoked => ~winVisible']_vars

\* The hotkey's cancel path or the renderer's 'cancel-retry'.
CancelStep == RecvCancelRetry \/ (Hotkey /\ ~isProcessingShortcut /\ lockTimer' = "cancel")

\* A 'retry-transcription' handler returns its result.
RetryOutcome == \E o \in Returning : o.kind = "retry"

\* C29: while the slot is occupied and the process is alive, a 'hide-window'
\* request and a blur leave the overlay as it is, and a step that hides the
\* overlay is a cancel or the return of a retry.
C29_PendingRetryKeepsOverlay ==
    [][(lastFailedMp3Path # NoPath /\ Running) =>
          /\ (RecvHideWindow \/ Blur) => winVisible' = winVisible
          /\ (winVisible /\ ~winVisible') => (CancelStep \/ RetryOutcome)]_vars

C29_Witness ==
    /\ lastFailedMp3Path # NoPath /\ winVisible /\ Released /\ ~quit
    /\ toMain # <<>> /\ Head(toMain) = "hide-window"

\* The handler returns from the catch around the ffmpeg command.
ConversionFails == \E o \in Returning : o.pc = "ffmpeg" /\ ~Returned.success

\* C30: a conversion error ends the attempt with a result that is not
\* retryable, without the attempt reaching the transcription call and with
\* the slot empty at the return; when the renderer is handed that result,
\* the UI goes to 'idle'.
C30_ConversionErrorTerminal ==
    [][/\ ConversionFails =>
            /\ ~Returned.retryable
            /\ \A o \in Returning : ~o.mp3
            /\ lastFailedMp3Path' = NoPath
       /\ (/\ toRend # <<>>
           /\ Head(toRend) = StopResult(FALSE, FALSE, ConversionFailed)
           /\ toRend' = Tail(toRend))
             => rend'.currentState = "idle"]_vars

\* C31: when the acquisition of the capture device fails, startRecording
\* ends with the UI in 'idle', no stream referenced and no recorder
\* referenced, and sends nothing to the main process.
C31_AcquireFailureToIdle ==
    [][AcquireFail => /\ currentState' = "idle"
                      /\ ~rend'.mediaStream
                      /\ rend'.mediaRecorder = "null"
                      /\ UNCHANGED <<toMain, mainVars>>]_vars

\* An acquisition is about to fail while an earlier one holds a stream and
\* a running recorder.
C31_Witness ==
    /\ rend.acquiring > 0 /\ rend.mediaStream /\ rend.mediaRecorder = "recording"
    /\ Released /\ ~quit

\* The step sends trigger-start-recording to the renderer.
StartTriggerSent ==
    /\ Len(toRend') = Len(toRend) + 1
    /\ toRend'[Len(toRend')] = TriggerStart

\* C32: trigger-start-recording is sent only while the window exists and is
\* visible; a hotkey press that finds the window missing creates it again
\* without sending anything to the renderer, and the new window's
\* 'ready-to-show' shows it and schedules the start trigger.
C32_StartOnlyWhenVisible ==
    [][/\ StartTriggerSent => (winVisible /\ mainWindow # "null")
       /\ HotkeyRecreate => (mainWindow' = "created" /\ UNCHANGED <<toRend, rend>>)
       /\ ReadyToShow => (winVisible' /\ startTimers' = startTimers + 1)]_vars

\* A press has found the window missing and created it again; the window
\* is not shown yet and nothing was sent.
C32_Witness ==
    /\ mainWindow = "created" /\ lockTimer = "recreate" /\ isProcessingShortcut
    /\ ~winVisible /\ startTimers = 0 /\ toRend = <<>>

\* The renderer handles a hotkey trigger.
TriggerHandled ==
    /\ RendRecv
    /\ Head(toRend).type \in {"trigger-start-recording", "trigger-stop-recording"}

\* A 'transcribe-audio' request waits for a timestamp while every one of the
\* FileIds is taken by a file still on disk: the bound on timestamps, which
\* Date.now() does not have, keeps the handler from starting.
OutOfTimestamps ==
    toMain # <<>> /\ Head(toMain) = "transcribe-audio" /\ FreshIds = {}

C34_OneCaptureSession ==
    [][AcquireOk => ~rend.mediaStream]_vars

\* C35: whenever the UI state is 'recording', the overlay is visible.
C35_RecordingVisible ==
    currentState = "recording" => winVisible

\* The step sends a 'transcribe-audio' request.
TranscribeRequested ==
    /\ Len(toMain') = Len(toMain) + 1
    /\ toMain'[Len(toMain')] = "transcribe-audio"

\* C36: the 'stop' event of a recorder that was stopped with save = false
\* sends no 'transcribe-audio' request; and a stop with save = false invoked
\* in 'processing' leaves the renderer as it is.
C36_DiscardedNeverSent ==
    [][/\ DiscardedStopHandled => ~TranscribeRequested
       /\ (currentState = "processing" /\ (ClickCancelRecording \/ RecorderError))
             => UNCHANGED rend]_vars

\* The 'stop' event of a recorder stopped with save = true is handled while
\* recordedChunks is empty.
EmptySavedStopHandled ==
    /\ ~rend.recordedChunks
    /\ \/ StopEvent /\ rend.shouldSaveAndProcess = "true"
       \/ OrphanStopEvent /\ rend.orphanSave = "true"

\* C37: when the 'stop' event of a recorder stopped with save = true is
\* handled and no chunk was recorded, the UI goes to 'idle', 'hide-window'
\* is the only message sent, and no handler invocation or temp file appears.
C37_NoDataBackToIdle ==
    [][EmptySavedStopHandled =>
          /\ currentState' = "idle"
          /\ toMain' = Append(toMain, "hide-window")
          /\ UNCHANGED <<ops, files, toRend>>]_vars

\* The referenced recorder was stopped with save = true, its 'stop' event is
\* pending and no chunk has arrived.
C37_Witness ==
    /\ currentState = "processing" /\ rend.stopQueued
    /\ rend.shouldSaveAndProcess = "true" /\ ~rend.recordedChunks
    /\ toMain = <<>> /\ Released /\ ~quit

\* C38: whenever the slot is occupied, the converted file it names is on
\* disk and no unlink of it has been requested; and a step that puts a path
\* in the slot is the return of a handler with a retryable result, the path
\* being that handler's converted file.
C38_SlotHoldsLiveFile ==
    /\ [](lastFailedMp3Path # NoPath =>
            /\ Mp3(lastFailedMp3Path) \in files
            /\ Mp3(lastFailedMp3Path) \notin unlinking)
    /\ [][(lastFailedMp3Path' # NoPath /\ lastFailedMp3Path' # lastFailedMp3Path) =>
            \E o \in Returning : /\ Returned.retryable /\ ~Returned.success
                                  /\ o.mp3 /\ lastFailedMp3Path' = o.id]_vars

C38_Witness ==
    /\ lastFailedMp3Path # NoPath /\ currentState = "error" /\ ops = {}
    /\ files = {Mp3(lastFailedMp3Path)} /\ unlinking = {}

\* C39: from a state in which the UI is in 'error' or the slot is occupied,
\* with no handler invocation in flight, repeated hotkey presses lead to the
\* UI in 'idle' with the slot empty and the overlay hidden.
C39_HotkeyLeavesError ==
    ((currentState = "error" \/ lastFailedMp3Path # NoPath) /\ ops = {})
       ~> (currentState = "idle" /\ lastFailedMp3Path = NoPath /\ ~winVisible)

\* The program rests with the UI in 'error', the slot occupied and the
\* overlay shown: the next press is the first of the presses.
C39_Witness ==
    /\ currentState = "error" /\ lastFailedMp3Path # NoPath /\ winVisible
    /\ Settled /\ ~isProcessingShortcut

====
